---------------------------- MODULE Spec2Model ----------------------------
(***************************************************************************)
(* Inventory ledger and aggregation engine of backend-choppi-api:          *)
(* ProductsService.adjustStock / remove / findLowStock and                 *)
(* StoresService.getStats / getRevenue over the products and stores        *)
(* repositories.  Every service method is an async function; each await on *)
(* a repository call is a suspension point, so a method is modelled as one *)
(* atomic step per repository call (the synchronous code that follows an   *)
(* await belongs to the step of that await).                               *)
(*                                                                         *)
(* Money is kept in whole cents: the price column is decimal(10,2).        *)
(***************************************************************************)
EXTENDS Integers, Sequences, FiniteSets, TLC

VARIABLES products, stores, req, http

vars == <<products, stores, req, http>>

(***************************************************************************)
(* Bounds of the model.                                                    *)
(***************************************************************************)
\* cap on the stock a product may reach (the code has no upper bound)
MaxStock == 3
\* largest quantity a caller sends
MaxQuantity == 2

ProductIds == {"p1", "p2"}
\* "s3" is never created: an id that resolves to no store
StoreIds == {"s1", "s2", "s3"}
Requests == {"r1", "r2"}

AdjustmentTypes == {"add", "subtract", "set"}

\* the stock values the model follows (negative ones included, so that a
\* stock that goes below zero is seen and not cut off)
StockRange == (0 - MaxStock)..MaxStock

\* quantities that pass AdjustStockDto (@IsInt, @Min(0))
ValidQuantities == 0..MaxQuantity
\* quantities a direct caller of the service can pass (number)
AnyQuantities == (0 - MaxQuantity)..MaxQuantity

(***************************************************************************)
(* Rows of the two tables.                                                 *)
(***************************************************************************)
\* category: null (the column is nullable)
NoCategory == "(null)"

\* category: '' (a string column also holds the empty string)
EmptyString == ""

Product(id, isActive, stock, price, sku, category, storeId) ==
    [id |-> id, isActive |-> isActive, stock |-> stock, price |-> price,
     sku |-> sku, category |-> category, storeId |-> storeId]

\* what repository.findOne resolves to when no row matches (null)
NoProduct == Product("", FALSE, 0, 0, "", NoCategory, "")

Store(id, isActive) == [id |-> id, isActive |-> isActive]

NoStore == Store("", FALSE)

(***************************************************************************)
(* A request slot: one in-flight invocation of a service method.           *)
(***************************************************************************)
NoStock == 0 - 1
NoResult == <<>>

\* a field of UpdateProductDto that the body leaves out
Absent == ""

\* the fields of CreateProductDto and UpdateProductDto that the service reads
ProductDto(sku, storeId) == [sku |-> sku, storeId |-> storeId]

NoDto == ProductDto(Absent, Absent)

Idle ==
    [pc |-> "idle", op |-> "", id |-> "", quantity |-> 0, type |-> "",
     product |-> NoProduct, previousStock |-> NoStock, newStock |-> NoStock,
     threshold |-> NoStock, error |-> "none", saves |-> 0, found |-> <<>>,
     result |-> NoResult, dto |-> NoDto]

(***************************************************************************)
(* ProductsService.findOne: the active row with this id, or null (the      *)
(* caller then throws NotFoundException).                                  *)
(***************************************************************************)
findOneAnyStatus(id) ==
    IF id \in DOMAIN products THEN products[id] ELSE NoProduct

findOne(id) ==
    IF id \in DOMAIN products /\ products[id].isActive
    THEN products[id]
    ELSE NoProduct

(***************************************************************************)
(* adjustStock, the switch on type.                                        *)
(***************************************************************************)
InsufficientStockNever(stock, quantity) == FALSE

InsufficientStockInverted(stock, quantity) == stock > quantity

InsufficientStockOffByOne(stock, quantity) == stock <= quantity

\* case 'subtract': if (product.stock < quantity) throw BadRequestException
InsufficientStock(stock, quantity) == stock < quantity

NewStockAddAsSet(type, stock, quantity) ==
    CASE type = "add" -> quantity
      [] type = "subtract" -> stock - quantity
      [] type = "set" -> quantity

NewStockSetAsAdd(type, stock, quantity) ==
    CASE type = "add" -> stock + quantity
      [] type = "subtract" -> stock - quantity
      [] type = "set" -> stock + quantity

NewStock(type, stock, quantity) ==
    CASE type = "add" -> stock + quantity
      [] type = "subtract" -> stock - quantity
      [] type = "set" -> quantity

(***************************************************************************)
(* productsRepository.save(product): the row is written back whole.        *)
(***************************************************************************)
SaveEveryRow(product) ==
    [id \in DOMAIN products \cup {product.id} |->
        IF id = product.id
        THEN product
        ELSE [products[id] EXCEPT !.stock = product.stock]]

Save(product) ==
    [id \in DOMAIN products \cup {product.id} |->
        IF id = product.id THEN product ELSE products[id]]

(***************************************************************************)
(* A method ends: its promise rejects with an exception, nothing written.  *)
(***************************************************************************)
ThrowAfterPartialWrite(r, call, error) ==
    /\ req' = [req EXCEPT ![r] = [call EXCEPT !.pc = "done", !.error = error]]
    /\ products' = IF call.product = NoProduct
                   THEN products
                   ELSE Save([call.product EXCEPT !.stock = 0])
    /\ UNCHANGED stores

Throw(r, call, error) ==
    /\ req' = [req EXCEPT ![r] = [call EXCEPT !.pc = "done", !.error = error]]
    /\ UNCHANGED <<products, stores>>

(***************************************************************************)
(* adjustStock(id, quantity, type), lines 166-184: await findOne, then the *)
(* switch.  The stock change is made on the local entity only.             *)
(***************************************************************************)
AdjustStockFindOne(r, id, quantity, type) ==
    /\ req[r].pc = "idle"
    /\ LET product == findOne(id)
           call == [Idle EXCEPT !.op = "adjustStock", !.id = id,
                                !.quantity = quantity, !.type = type]
       IN  IF product = NoProduct
           THEN Throw(r, call, "NotFound")
           ELSE LET read == [call EXCEPT !.product = product,
                                         !.previousStock = product.stock]
                IN  IF type = "subtract" /\ InsufficientStock(product.stock, quantity)
                    THEN Throw(r, read, "BadRequest")
                    ELSE /\ NewStock(type, product.stock, quantity) \in StockRange
                         /\ req' = [req EXCEPT ![r] =
                               [read EXCEPT !.pc = "save",
                                            !.product.stock =
                                               NewStock(type, product.stock, quantity)]]
                         /\ UNCHANGED <<products, stores>>

(***************************************************************************)
(* adjustStock, lines 186-192: await save, then the result.                *)
(***************************************************************************)
AdjustStockSave(r) ==
    /\ req[r].pc = "save"
    /\ req[r].op = "adjustStock"
    /\ products' = Save(req[r].product)
    /\ req' = [req EXCEPT ![r].pc = "done",
                          ![r].saves = @ + 1,
                          ![r].newStock = req[r].product.stock]
    /\ UNCHANGED stores

(***************************************************************************)
(* remove(id): await findOne, isActive = false, await save.                *)
(***************************************************************************)
RemoveFindOne(r, id) ==
    /\ req[r].pc = "idle"
    /\ LET product == findOne(id)
           call == [Idle EXCEPT !.op = "remove", !.id = id]
       IN  IF product = NoProduct
           THEN Throw(r, call, "NotFound")
           ELSE /\ req' = [req EXCEPT ![r] =
                      [call EXCEPT !.pc = "save",
                                   !.product = [product EXCEPT !.isActive = FALSE]]]
                /\ UNCHANGED <<products, stores>>

RemoveSave(r) ==
    /\ req[r].pc = "save"
    /\ req[r].op = "remove"
    /\ products' = Save(req[r].product)
    /\ req' = [req EXCEPT ![r].pc = "done", ![r].saves = @ + 1]
    /\ UNCHANGED stores

(***************************************************************************)
(* The await on productsRepository.save rejects (storage failure): there   *)
(* is no try/catch in adjustStock, so the rejection is the method's own;   *)
(* the repository has written nothing.                                     *)
(***************************************************************************)
AdjustStockSaveRetried(r) ==
    /\ req[r].pc = "save"
    /\ req[r].op = "adjustStock"
    /\ products' = Save(req[r].product)
    /\ req' = [req EXCEPT ![r].pc = "done",
                          ![r].saves = @ + 2,
                          ![r].newStock = req[r].product.stock]
    /\ UNCHANGED stores

AdjustStockSaveFails(r) ==
    /\ req[r].pc = "save"
    /\ req[r].op = "adjustStock"
    /\ Throw(r, [req[r] EXCEPT !.saves = @ + 1], "RepositoryFailure")

(***************************************************************************)
(* The caller has its answer; the slot serves the next call.               *)
(***************************************************************************)
Respond(r) ==
    /\ req[r].pc = "done"
    /\ req' = [req EXCEPT ![r] = Idle]
    /\ UNCHANGED <<products, stores>>

findStoreAnyStatus(id) ==
    IF id \in DOMAIN stores THEN stores[id] ELSE NoStore

\* storesRepository.findOne({ where: { id, isActive: true } })
findActiveStore(id) ==
    IF id \in DOMAIN stores /\ stores[id].isActive THEN stores[id] ELSE NoStore

(***************************************************************************)
(* create(dto), lines 22-43: await the store, await the product with the   *)
(* SKU, then save a new row.  update(id, dto), lines 119-146: await        *)
(* findOne, await the store if storeId changes, await the product with the *)
(* SKU if sku changes, then Object.assign and save.  The sku column is     *)
(* unique: the database refuses a row whose SKU another row has.           *)
(***************************************************************************)
CrudIds == {"p1", "p2", "p3"}

Skus == {"SKU-1", "SKU-2"}

findOneBySkuActive(sku) ==
    IF \E p \in DOMAIN products : products[p].sku = sku /\ products[p].isActive
    THEN products[CHOOSE p \in DOMAIN products :
                     products[p].sku = sku /\ products[p].isActive]
    ELSE NoProduct

\* productsRepository.findOne({ where: { sku } })
findOneBySku(sku) ==
    IF \E p \in DOMAIN products : products[p].sku = sku
    THEN products[CHOOSE p \in DOMAIN products : products[p].sku = sku]
    ELSE NoProduct

\* @Column({ unique: true }) sku
UniqueViolation(product) ==
    \E p \in DOMAIN products : p # product.id /\ products[p].sku = product.sku

\* the id the database gives a new row
NewId == CHOOSE id \in CrudIds : id \notin DOMAIN products

\* productsRepository.create(createProductDto), with the column defaults
NewProduct(dto) == Product(NewId, TRUE, 0, 250, dto.sku, NoCategory, dto.storeId)

\* Object.assign(product, updateProductDto)
Assign(product, dto) ==
    [product EXCEPT !.sku = IF dto.sku = Absent THEN @ ELSE dto.sku,
                    !.storeId = IF dto.storeId = Absent THEN @ ELSE dto.storeId]

CreateFindStore(r, dto) ==
    /\ req[r].pc = "idle"
    /\ LET call == [Idle EXCEPT !.op = "create", !.dto = dto]
       IN  IF findActiveStore(dto.storeId) = NoStore
           THEN Throw(r, call, "NotFound")
           ELSE /\ req' = [req EXCEPT ![r] = [call EXCEPT !.pc = "sku"]]
                /\ UNCHANGED <<products, stores>>

UpdateFindOne(r, id, dto) ==
    /\ req[r].pc = "idle"
    /\ LET product == findOne(id)
           call == [Idle EXCEPT !.op = "update", !.id = id, !.dto = dto]
       IN  IF product = NoProduct
           THEN Throw(r, call, "NotFound")
           ELSE /\ req' = [req EXCEPT ![r] =
                      [call EXCEPT !.product = product,
                                   !.pc = IF dto.storeId # Absent
                                             /\ dto.storeId # product.storeId
                                          THEN "store"
                                          ELSE IF dto.sku # Absent
                                                  /\ dto.sku # product.sku
                                               THEN "sku"
                                               ELSE "save"]]
                /\ UNCHANGED <<products, stores>>

UpdateFindStoreLenient(r) ==
    /\ req[r].pc = "store"
    /\ req[r].op = "update"
    /\ req' = [req EXCEPT ![r].pc =
          IF req[r].dto.sku # Absent /\ req[r].dto.sku # req[r].product.sku
          THEN "sku"
          ELSE "save"]
    /\ UNCHANGED <<products, stores>>

UpdateFindStore(r) ==
    /\ req[r].pc = "store"
    /\ req[r].op = "update"
    /\ IF findActiveStore(req[r].dto.storeId) = NoStore
       THEN Throw(r, req[r], "NotFound")
       ELSE /\ req' = [req EXCEPT ![r].pc =
                  IF req[r].dto.sku # Absent /\ req[r].dto.sku # req[r].product.sku
                  THEN "sku"
                  ELSE "save"]
            /\ UNCHANGED <<products, stores>>

\* the lookup of the SKU, in create and in update
FindSku(r) ==
    /\ req[r].pc = "sku"
    /\ req[r].op \in {"create", "update"}
    /\ IF findOneBySku(req[r].dto.sku) # NoProduct
       THEN Throw(r, req[r], "Conflict")
       ELSE /\ req' = [req EXCEPT ![r].pc = "save"]
            /\ UNCHANGED <<products, stores>>

\* the save of create and of update
SaveProduct(r) ==
    /\ req[r].pc = "save"
    /\ req[r].op \in {"create", "update"}
    /\ req[r].op = "create" => DOMAIN products # CrudIds
    /\ LET product == IF req[r].op = "create"
                      THEN NewProduct(req[r].dto)
                      ELSE Assign(req[r].product, req[r].dto)
       IN  IF UniqueViolation(product)
           THEN Throw(r, [req[r] EXCEPT !.saves = @ + 1], "RepositoryFailure")
           ELSE /\ products' = Save(product)
                /\ req' = [req EXCEPT ![r].pc = "done",
                                      ![r].saves = @ + 1,
                                      ![r].product = product]
                /\ UNCHANGED stores

(***************************************************************************)
(* The lookups findOne(id) and findBySku(sku) as calls of their own.       *)
(***************************************************************************)
findBySkuAnyStatus(sku) == findOneBySku(sku)

\* productsRepository.findOne({ where: { sku, isActive: true } })
findBySku(sku) ==
    IF \E p \in DOMAIN products : products[p].sku = sku /\ products[p].isActive
    THEN products[CHOOSE p \in DOMAIN products :
                     products[p].sku = sku /\ products[p].isActive]
    ELSE NoProduct

FindOne(r, id) ==
    /\ req[r].pc = "idle"
    /\ LET call == [Idle EXCEPT !.op = "findOne", !.id = id]
       IN  IF findOne(id) = NoProduct
           THEN Throw(r, call, "NotFound")
           ELSE /\ req' = [req EXCEPT ![r] =
                      [call EXCEPT !.pc = "done", !.product = findOne(id)]]
                /\ UNCHANGED <<products, stores>>

FindBySku(r, sku) ==
    /\ req[r].pc = "idle"
    /\ LET call == [Idle EXCEPT !.op = "findBySku", !.dto = ProductDto(sku, Absent)]
       IN  IF findBySku(sku) = NoProduct
           THEN Throw(r, call, "NotFound")
           ELSE /\ req' = [req EXCEPT ![r] =
                      [call EXCEPT !.pc = "done", !.id = findBySku(sku).id,
                                   !.product = findBySku(sku)]]
                /\ UNCHANGED <<products, stores>>

(***************************************************************************)
(* ProductsController.adjustStock: the body of the request, and the        *)
(* response that goes back.  The controller hands id, quantity and type to *)
(* the service and builds the response from the service's result and the   *)
(* body.  A rejection of the service goes back as the status of its        *)
(* exception.                                                              *)
(***************************************************************************)
\* reason?: string, left out
NoReason == "(undefined)"

Reasons == {NoReason, "Recepcion de mercancia"}

AdjustStockDto(quantity, type, reason) ==
    [quantity |-> quantity, type |-> type, reason |-> reason]

Dtos ==
    {AdjustStockDto(quantity, type, reason) :
        quantity \in ValidQuantities, type \in AdjustmentTypes, reason \in Reasons}

NoResponse == [status |-> 0]

NoExchange == [dto |-> AdjustStockDto(0, "", NoReason), response |-> NoResponse]

serviceArgumentsCorrecting(dto) ==
    [quantity |-> dto.quantity,
     type |-> IF dto.reason # NoReason /\ dto.type = "subtract" THEN "set" ELSE dto.type]

\* this.productsService.adjustStock(id, adjustStockDto.quantity, adjustStockDto.type)
serviceArguments(dto) == [quantity |-> dto.quantity, type |-> dto.type]

\* the object the controller returns
adjustStockResponse(call, dto) ==
    [status |-> 200, id |-> call.product.id, sku |-> call.product.sku,
     previousStock |-> call.previousStock, newStock |-> call.newStock,
     adjustmentType |-> dto.type, adjustmentQuantity |-> dto.quantity,
     reason |-> dto.reason]

\* NotFoundException and BadRequestException as Nest sends them
errorResponse(error) ==
    [status |-> IF error = "NotFound" THEN 404 ELSE 400, error |-> error]

\* the controller calls the service, which runs up to its first await that
\* does not resolve at once, or rejects
ControllerAdjustStock(r, id, dto) ==
    /\ AdjustStockFindOne(r, id, serviceArguments(dto).quantity,
                          serviceArguments(dto).type)
    /\ http' = [http EXCEPT ![r] =
          [dto |-> dto,
           response |-> IF req'[r].pc = "done"
                        THEN errorResponse(req'[r].error)
                        ELSE NoResponse]]

\* the save resolves, the service returns and the controller responds
ControllerAdjustStockReturns(r) ==
    /\ AdjustStockSave(r)
    /\ http' = [http EXCEPT ![r].response = adjustStockResponse(req'[r], http[r].dto)]

(***************************************************************************)
(* The database the ledger starts from: two stores, product p1 on sale,    *)
(* product p2 not created yet, on sale, or already soft-deleted.           *)
(***************************************************************************)
LedgerStores ==
    [id \in {"s1", "s2"} |-> Store(id, TRUE)]

LedgerProduct(id, isActive, stock) ==
    IF id = "p1"
    THEN Product("p1", isActive, stock, 1005, "SKU-1", "Bebidas", "s1")
    ELSE Product("p2", isActive, stock, 250, "SKU-2", NoCategory, "s2")

LedgerTables ==
    {[id \in {"p1"} |-> LedgerProduct(id, TRUE, s)] : s \in 0..MaxStock}
    \cup
    {[id \in ProductIds |->
         IF id = "p1" THEN LedgerProduct(id, TRUE, s1) ELSE LedgerProduct(id, a, s2)] :
       s1 \in 0..MaxStock, s2 \in 0..MaxStock, a \in BOOLEAN}

Init ==
    /\ products \in LedgerTables
    /\ stores = LedgerStores
    /\ req = [r \in Requests |-> Idle]
    /\ http = [r \in Requests |-> NoExchange]

Next ==
    /\ \E r \in Requests :
           \/ \E id \in ProductIds, quantity \in ValidQuantities, type \in AdjustmentTypes :
                 AdjustStockFindOne(r, id, quantity, type)
           \/ AdjustStockSave(r)
           \/ \E id \in ProductIds : RemoveFindOne(r, id)
           \/ RemoveSave(r)
           \/ Respond(r)
    /\ UNCHANGED http

Spec == Init /\ [][Next]_vars

(***************************************************************************)
(* adjustStock over a repository whose save may fail.                      *)
(***************************************************************************)
NextFaulty ==
    /\ \E r \in Requests :
           \/ \E id \in ProductIds, quantity \in ValidQuantities, type \in AdjustmentTypes :
                 AdjustStockFindOne(r, id, quantity, type)
           \/ AdjustStockSave(r)
           \/ AdjustStockSaveFails(r)
           \/ Respond(r)
    /\ UNCHANGED http

SpecFaulty == Init /\ [][NextFaulty]_vars

(***************************************************************************)
(* The service called directly, without the validation pipe in front of    *)
(* AdjustStockDto: quantity is any number.                                 *)
(***************************************************************************)
NextDirect ==
    /\ \E r \in Requests :
           \/ \E id \in ProductIds, quantity \in AnyQuantities, type \in AdjustmentTypes :
                 AdjustStockFindOne(r, id, quantity, type)
           \/ AdjustStockSave(r)
           \/ Respond(r)
    /\ UNCHANGED http

SpecDirect == Init /\ [][NextDirect]_vars

(***************************************************************************)
(* A race: every slot serves exactly one call, all of them in flight       *)
(* together (no slot is reused, so the slots hold the whole history).      *)
(***************************************************************************)
NextRace ==
    /\ \E r \in Requests :
           \/ \E id \in ProductIds, quantity \in ValidQuantities, type \in AdjustmentTypes :
                 AdjustStockFindOne(r, id, quantity, type)
           \/ AdjustStockSave(r)
    /\ UNCHANGED http

SpecRace == Init /\ [][NextRace]_vars

(***************************************************************************)
(* The same race through the controller: every slot serves one request.    *)
(***************************************************************************)
NextController ==
    \E r \in Requests :
        \/ \E id \in ProductIds, dto \in Dtos : ControllerAdjustStock(r, id, dto)
        \/ ControllerAdjustStockReturns(r)

SpecController == Init /\ [][NextController]_vars

(***************************************************************************)
(* Products are created and updated, two calls at a time.  The catalogue   *)
(* starts empty or with one product, on sale or soft-deleted.              *)
(***************************************************************************)
CreateDtos == {ProductDto(sku, storeId) : sku \in Skus, storeId \in StoreIds}

UpdateDtos ==
    {ProductDto(sku, storeId) :
        sku \in Skus \cup {Absent}, storeId \in {Absent, "s2", "s3"}}

CrudTables ==
    {[id \in {} |-> NoProduct]}
    \cup {[id \in {"p1"} |-> Product("p1", a, 0, 250, "SKU-1", NoCategory, "s1")] :
             a \in BOOLEAN}

\* the second store is open or soft-deleted, the third id is no store
CrudStores ==
    {[id \in {"s1", "s2"} |-> Store(id, id = "s1" \/ a)] : a \in BOOLEAN}

InitCrud ==
    /\ products \in CrudTables
    /\ stores \in CrudStores
    /\ req = [r \in Requests |-> Idle]
    /\ http = [r \in Requests |-> NoExchange]

NextCrud ==
    /\ \E r \in Requests :
           \/ \E dto \in CreateDtos : CreateFindStore(r, dto)
           \/ \E id \in CrudIds, dto \in UpdateDtos : UpdateFindOne(r, id, dto)
           \/ UpdateFindStore(r)
           \/ FindSku(r)
           \/ SaveProduct(r)
           \/ Respond(r)
    /\ UNCHANGED http

SpecCrud == InitCrud /\ [][NextCrud]_vars

(***************************************************************************)
(* The life of a product: it is looked up, created, updated, adjusted and  *)
(* soft-deleted, two calls at a time; every slot serves one call, so the   *)
(* slots hold the whole history.                                           *)
(***************************************************************************)
LifeStocks == {0, 1}

LifeQuantities == {1}

LifeIds == {"p1", "p2"}

LifeDtos == {ProductDto(sku, Absent) : sku \in Skus \cup {Absent}}

LifeTables ==
    {[id \in {"p1"} |-> Product("p1", a, s, 250, "SKU-1", NoCategory, "s1")] :
        a \in BOOLEAN, s \in LifeStocks}
    \cup
    {[id \in {"p1", "p2"} |->
         IF id = "p1"
         THEN Product("p1", a, s, 250, "SKU-1", NoCategory, "s1")
         ELSE Product("p2", TRUE, 1, 1005, "SKU-2", "Bebidas", "s2")] :
        a \in BOOLEAN, s \in LifeStocks}

InitLife ==
    /\ products \in LifeTables
    /\ stores = LedgerStores
    /\ req = [r \in Requests |-> Idle]
    /\ http = [r \in Requests |-> NoExchange]

NextLife ==
    /\ \E r \in Requests :
           \/ \E id \in LifeIds : FindOne(r, id)
           \/ \E sku \in Skus : FindBySku(r, sku)
           \/ \E dto \in {ProductDto(sku, "s1") : sku \in Skus} : CreateFindStore(r, dto)
           \/ \E id \in LifeIds, dto \in LifeDtos : UpdateFindOne(r, id, dto)
           \/ FindSku(r)
           \/ SaveProduct(r)
           \/ \E id \in LifeIds, quantity \in LifeQuantities, type \in AdjustmentTypes :
                 AdjustStockFindOne(r, id, quantity, type)
           \/ AdjustStockSave(r)
           \/ \E id \in LifeIds : RemoveFindOne(r, id)
           \/ RemoveSave(r)
    /\ UNCHANGED http

SpecLife == InitLife /\ [][NextLife]_vars

(***************************************************************************)
(* The aggregator.  Rows come out of the repository in table order, the    *)
(* order of ProductOrder.  Amounts are whole cents: every price has two    *)
(* decimals, so Number(price) * stock summed and then put through          *)
(* Math.round(x * 100) / 100 is the sum of the cents.                      *)
(***************************************************************************)
ProductOrder == <<"p1", "p2", "p3">>

\* default of lowStockThreshold (getStats) and of threshold (findLowStock)
LowStockThreshold == 10

\* the bucket of products without a category ('Sin categoría')
SinCategoria == "Sin categoria"

\* the rows of a table, in table order
Rows(table) ==
    LET ids == SelectSeq(ProductOrder, LAMBDA id : id \in DOMAIN table)
    IN  [i \in 1..Len(ids) |-> table[ids[i]]]

\* relations: ['products']: every product row of the store, soft-deleted or not
storeProducts(table, id) ==
    SelectSeq(Rows(table), LAMBDA p : p.storeId = id)

AllProductsCounted(list) == list

\* store.products.filter(p => p.isActive)
activeProducts(list) == SelectSeq(list, LAMBDA p : p.isActive)

RECURSIVE Sum(_)
\* numbers.reduce((sum, x) => sum + x, 0)
Sum(numbers) ==
    IF numbers = <<>>
    THEN 0
    ELSE Sum(SubSeq(numbers, 1, Len(numbers) - 1)) + numbers[Len(numbers)]

\* Number(product.price) * product.stock
InventoryValuePerUnit(p) == p.price

InventoryValue(p) == p.price * p.stock

\* list.reduce((sum, p) => sum + Number(p.price) * p.stock, 0)
totalInventoryValue(list) == Sum([i \in 1..Len(list) |-> InventoryValue(list[i])])

\* list.reduce((sum, p) => sum + p.stock, 0)
totalStock(list) == Sum([i \in 1..Len(list) |-> list[i].stock])

\* list.reduce((sum, p) => sum + Number(p.price), 0)
totalPrice(list) == Sum([i \in 1..Len(list) |-> list[i].price])

\* Math.round(x * 100) / 100 of the quotient num / den of two amounts, den > 0
Round2(num, den) == (2 * num + den) \div (2 * den)

\* product.category || 'Sin categoría'
Falsy(category) == category \in {NoCategory, EmptyString}

categoryOfNullish(p) == IF p.category = NoCategory THEN SinCategoria ELSE p.category

categoryOf(p) == IF Falsy(p.category) THEN SinCategoria ELSE p.category

MapSetUncounted(map, p) ==
    IF \E i \in 1..Len(map) : map[i].category = categoryOf(p)
    THEN [i \in 1..Len(map) |->
            IF map[i].category = categoryOf(p)
            THEN [map[i] EXCEPT !.value = @ + InventoryValue(p)]
            ELSE map[i]]
    ELSE Append(map, [category |-> categoryOf(p), count |-> 1,
                      value |-> InventoryValue(p)])

\* categoriesMap.set(category, ...): a Map keeps its keys in insertion order
MapSet(map, p) ==
    IF \E i \in 1..Len(map) : map[i].category = categoryOf(p)
    THEN [i \in 1..Len(map) |->
            IF map[i].category = categoryOf(p)
            THEN [map[i] EXCEPT !.count = @ + 1, !.value = @ + InventoryValue(p)]
            ELSE map[i]]
    ELSE Append(map, [category |-> categoryOf(p), count |-> 1,
                      value |-> InventoryValue(p)])

RECURSIVE categoriesMap(_)
categoriesMap(list) ==
    IF list = <<>>
    THEN <<>>
    ELSE MapSet(categoriesMap(SubSeq(list, 1, Len(list) - 1)), list[Len(list)])

productsByCategory(list) ==
    LET map == categoriesMap(list)
    IN  [i \in 1..Len(map) |->
            [category |-> map[i].category, productCount |-> map[i].count,
             totalValue |-> Round2(map[i].value, 1)]]

NotFound == [error |-> "NotFound"]

\* StoresService.getStats over a given products table
getStatsOver(table, id, lowStockThreshold) ==
    LET store == findActiveStore(id)
        active == activeProducts(storeProducts(table, id))
    IN  IF store = NoStore
        THEN NotFound
        ELSE [error |-> "none",
              storeId |-> store.id,
              totalProducts |-> Len(active),
              totalInventoryValue |-> Round2(totalInventoryValue(active), 1),
              productsByCategory |-> productsByCategory(active),
              lowStockProducts |->
                  Len(SelectSeq(active, LAMBDA p : p.stock <= lowStockThreshold)),
              lowStockThreshold |-> lowStockThreshold]

getStats(id, lowStockThreshold) == getStatsOver(products, id, lowStockThreshold)

\* StoresService.getRevenue over a given products table
\* 0 / 0 is not a number
averageProductPriceUnguarded(list) ==
    IF Len(list) > 0 THEN Round2(totalPrice(list), Len(list)) ELSE NoStock

\* totalProducts > 0 ? sum of Number(price) / totalProducts : 0, rounded
averageProductPrice(list) ==
    IF Len(list) > 0 THEN Round2(totalPrice(list), Len(list)) ELSE 0

getRevenueOver(table, id) ==
    LET store == findActiveStore(id)
        active == activeProducts(storeProducts(table, id))
        totalProducts == Len(active)
    IN  IF store = NoStore
        THEN NotFound
        ELSE [error |-> "none",
              storeId |-> store.id,
              totalInventoryValue |-> Round2(totalInventoryValue(active), 1),
              totalProducts |-> totalProducts,
              totalStock |-> totalStock(active),
              averageProductPrice |-> averageProductPrice(active)]

getRevenue(id) == getRevenueOver(products, id)

RoundDownOutcomes(num, den) == {num \div den}

\* Math.round(x * 100) / 100 of a quotient x of doubles: a mean that lies
\* exactly half way between two cents is held as the double next to it, above
\* or below, so the rounding of such a mean goes either way
Round2Outcomes(num, den) ==
    IF 2 * (num % den) = den
    THEN {num \div den, num \div den + 1}
    ELSE {Round2(num, den)}

\* the answers getRevenue can give
getRevenueOutcomes(table, id) ==
    LET exact == getRevenueOver(table, id)
        active == activeProducts(storeProducts(table, id))
    IN  IF exact = NotFound \/ Len(active) = 0
        THEN {exact}
        ELSE {[exact EXCEPT !.averageProductPrice = average] :
                 average \in Round2Outcomes(totalPrice(active), Len(active))}

\* productsRepository.find({ where: { isActive: true }, order: { stock: 'ASC' } }):
\* ORDER BY stock ASC names no second key, so rows of equal stock come in an
\* order the database picks: every ascending arrangement is a possible answer
findOrderedByStock(rows) ==
    {list \in [1..Len(rows) -> {rows[i] : i \in 1..Len(rows)}] :
        /\ \A i, j \in 1..Len(list) : i < j => list[i] # list[j]
        /\ \A i, j \in 1..Len(list) : i < j => list[i].stock <= list[j].stock}

findActiveOrderedByStockDescending(table) ==
    {[i \in 1..Len(list) |-> list[Len(list) + 1 - i]] :
        list \in findOrderedByStock(SelectSeq(Rows(table), LAMBDA p : p.isActive))}

\* what the find of findLowStock can resolve to over a given products table
findActiveOrderedByStock(table) ==
    findOrderedByStock(SelectSeq(Rows(table), LAMBDA p : p.isActive))

lowStockFilterStrict(list, threshold) ==
    SelectSeq(list, LAMBDA p : p.stock < threshold)

\* products.filter(p => p.stock <= threshold)
lowStockFilter(list, threshold) ==
    SelectSeq(list, LAMBDA p : p.stock <= threshold)

\* ProductsService.findLowStock over a given products table: the answers it can give
findLowStockOver(table, threshold) ==
    {lowStockFilter(found, threshold) : found \in findActiveOrderedByStock(table)}

findLowStock(threshold) == findLowStockOver(products, threshold)

\* findLowStock with the filter in the query: where isActive and
\* stock <= threshold, order by stock ASC
findLowStockPushedDown(threshold) ==
    findOrderedByStock(
        SelectSeq(Rows(products), LAMBDA p : p.isActive /\ p.stock <= threshold))

(***************************************************************************)
(* The three reads as calls: one await on the repository, then the result. *)
(***************************************************************************)
GetStatsLabelling(r, id, lowStockThreshold) ==
    /\ req[r].pc = "idle"
    /\ LET call == [Idle EXCEPT !.op = "getStats", !.id = id,
                                !.threshold = lowStockThreshold]
           result == getStats(id, lowStockThreshold)
       IN  IF result = NotFound
           THEN Throw(r, call, "NotFound")
           ELSE /\ req' = [req EXCEPT ![r] =
                      [call EXCEPT !.pc = "done", !.result = result]]
                /\ products' =
                      [p \in DOMAIN products |->
                          IF products[p].storeId = id /\ products[p].isActive
                          THEN [products[p] EXCEPT !.category = categoryOf(products[p])]
                          ELSE products[p]]
                /\ UNCHANGED stores

GetStats(r, id, lowStockThreshold) ==
    /\ req[r].pc = "idle"
    /\ LET call == [Idle EXCEPT !.op = "getStats", !.id = id,
                                !.threshold = lowStockThreshold]
           result == getStats(id, lowStockThreshold)
       IN  IF result = NotFound
           THEN Throw(r, call, "NotFound")
           ELSE /\ req' = [req EXCEPT ![r] =
                      [call EXCEPT !.pc = "done", !.result = result]]
                /\ UNCHANGED <<products, stores>>

GetRevenue(r, id) ==
    /\ req[r].pc = "idle"
    /\ LET call == [Idle EXCEPT !.op = "getRevenue", !.id = id]
       IN  \E result \in getRevenueOutcomes(products, id) :
               IF result = NotFound
               THEN Throw(r, call, "NotFound")
               ELSE /\ req' = [req EXCEPT ![r] =
                          [call EXCEPT !.pc = "done", !.result = result]]
                    /\ UNCHANGED <<products, stores>>

FindLowStock(r, threshold) ==
    /\ req[r].pc = "idle"
    /\ \E found \in findActiveOrderedByStock(products) :
          req' = [req EXCEPT ![r] =
             [Idle EXCEPT !.op = "findLowStock", !.threshold = threshold,
                          !.pc = "done", !.found = found,
                          !.result = lowStockFilter(found, threshold)]]
    /\ UNCHANGED <<products, stores>>

(***************************************************************************)
(* A parameter with a default (lowStockThreshold: number = 10, threshold:  *)
(* number = 10): the argument is a number, or is left out.                 *)
(***************************************************************************)
Undefined == <<>>

Given(x) == <<x>>

orDefaultZero(argument, default) ==
    IF argument = Undefined THEN 0 ELSE argument[1]

orDefault(argument, default) ==
    IF argument = Undefined THEN default ELSE argument[1]

\* getStats(id) and getStats(id, t)
getStatsCall(id, argument) == getStats(id, orDefault(argument, LowStockThreshold))

\* findLowStock() and findLowStock(t)
findLowStockCall(argument) == findLowStock(orDefault(argument, LowStockThreshold))

GetStatsCall(r, id, argument) ==
    GetStats(r, id, orDefault(argument, LowStockThreshold))

FindLowStockCall(r, argument) ==
    FindLowStock(r, orDefault(argument, LowStockThreshold))

(***************************************************************************)
(* The data the aggregator is run on: every table of up to two products    *)
(* over these prices, stocks (below, at and above the default threshold),  *)
(* categories and stores, each on sale or soft-deleted; both stores exist, *)
(* each active or soft-deleted.                                            *)
(***************************************************************************)
AggPrices == {250, 1000}

AggStocks == {0, LowStockThreshold, LowStockThreshold + 1}

AggCategories == {NoCategory, "Bebidas", "Alimentos"}

AggThresholds == {0, LowStockThreshold}

AggRequests == {"r1"}

AggRows(id) ==
    {Product(id, a, s, p, IF id = "p1" THEN "SKU-1" ELSE "SKU-2", c, st) :
        a \in BOOLEAN, s \in AggStocks, p \in AggPrices, c \in AggCategories,
        st \in {"s1", "s2"}}

AggTables ==
    UNION {{t \in [D -> UNION {AggRows(id) : id \in D}] : \A id \in D : t[id].id = id} :
             D \in SUBSET ProductIds}

AggStores ==
    {[id \in {"s1", "s2"} |-> Store(id, IF id = "s1" THEN a1 ELSE a2)] :
        a1 \in BOOLEAN, a2 \in BOOLEAN}

InitAgg ==
    /\ products \in AggTables
    /\ stores \in AggStores
    /\ req = [r \in Requests |-> Idle]
    /\ http = [r \in Requests |-> NoExchange]

NextAgg ==
    /\ \E r \in AggRequests :
           \/ \E id \in StoreIds, t \in AggThresholds : GetStats(r, id, t)
           \/ \E id \in StoreIds : GetRevenue(r, id)
           \/ \E t \in AggThresholds : FindLowStock(r, t)
           \/ Respond(r)
    /\ UNCHANGED http

SpecAgg == InitAgg /\ [][NextAgg]_vars

(***************************************************************************)
(* The aggregators over a catalogue of three products: the stores are      *)
(* open, the first product is on sale in the first store, and each product *)
(* is one of a few items (price in cents, stock) in one of the categories. *)
(* The threshold is left out or given.                                     *)
(***************************************************************************)
StatsProductIds == {"p1", "p2", "p3"}

StatsItems ==
    {<<10000, 10>>, <<5000, 5>>, <<20000, 3>>, <<5000, 20>>, <<5001, 8>>}

StatsCategories == {NoCategory, EmptyString, "Bebidas", "Alimentos"}

StatsArguments == {Undefined, Given(5)}

StatsRows(id) ==
    {Product(id, a, item[2], item[1],
             CASE id = "p1" -> "SKU-1" [] id = "p2" -> "SKU-2" [] OTHER -> "SKU-3",
             c, st) :
        a \in IF id = "p1" THEN {TRUE} ELSE BOOLEAN,
        item \in IF id = "p1" THEN {<<10000, 10>>, <<5001, 8>>} ELSE StatsItems,
        c \in StatsCategories,
        st \in IF id = "p3" THEN {"s1", "s2"} ELSE {"s1"}}

StatsTables ==
    {t \in [StatsProductIds -> UNION {StatsRows(id) : id \in StatsProductIds}] :
        \A id \in StatsProductIds : t[id].id = id}

InitStats ==
    /\ products \in StatsTables
    /\ stores = LedgerStores
    /\ req = [r \in Requests |-> Idle]
    /\ http = [r \in Requests |-> NoExchange]

NextStats ==
    /\ \E r \in AggRequests :
           \/ \E id \in StoreIds, t \in StatsArguments : GetStatsCall(r, id, t)
           \/ \E id \in StoreIds : GetRevenue(r, id)
           \/ \E t \in StatsArguments : FindLowStockCall(r, t)
           \/ Respond(r)
    /\ UNCHANGED http

SpecStats == InitStats /\ [][NextStats]_vars

(***************************************************************************)
(* The aggregators with the thresholds a query string can carry: the       *)
(* controllers pass +threshold on, whatever its sign.                      *)
(***************************************************************************)
AnyThresholds == (0 - 1)..1

NextAnyThreshold ==
    /\ \E r \in Requests :
           \/ \E id \in StoreIds, t \in AnyThresholds : GetStats(r, id, t)
           \/ \E t \in AnyThresholds : FindLowStock(r, t)
           \/ Respond(r)
    /\ UNCHANGED http

SpecAnyThreshold == Init /\ [][NextAnyThreshold]_vars

(***************************************************************************)
(* StoresService.remove(id), lines 72-76: await findOne (the store with    *)
(* isActive true, or NotFound), isActive = false, await save.  The store   *)
(* entity has no cascade on its products.                                  *)
(***************************************************************************)
SaveStore(store) ==
    [id \in DOMAIN stores \cup {store.id} |->
        IF id = store.id THEN store ELSE stores[id]]

StoreRemoveFindOne(r, id) ==
    /\ req[r].pc = "idle"
    /\ LET call == [Idle EXCEPT !.op = "removeStore", !.id = id]
       IN  IF findActiveStore(id) = NoStore
           THEN Throw(r, call, "NotFound")
           ELSE /\ req' = [req EXCEPT ![r] =
                      [call EXCEPT !.pc = "save",
                                   !.result = [findActiveStore(id) EXCEPT
                                                  !.isActive = FALSE]]]
                /\ UNCHANGED <<products, stores>>

StoreRemoveSaveCascading(r) ==
    /\ req[r].pc = "save"
    /\ req[r].op = "removeStore"
    /\ stores' = SaveStore(req[r].result)
    /\ products' = [p \in DOMAIN products |->
                       IF products[p].storeId = req[r].id
                       THEN [products[p] EXCEPT !.isActive = FALSE]
                       ELSE products[p]]
    /\ req' = [req EXCEPT ![r].pc = "done", ![r].saves = @ + 1]

StoreRemoveSave(r) ==
    /\ req[r].pc = "save"
    /\ req[r].op = "removeStore"
    /\ stores' = SaveStore(req[r].result)
    /\ req' = [req EXCEPT ![r].pc = "done", ![r].saves = @ + 1]
    /\ UNCHANGED products

\* stores are soft-deleted while the aggregators are asked
StoreThresholds == {1}

NextStore ==
    /\ \E r \in Requests :
           \/ \E id \in StoreIds : StoreRemoveFindOne(r, id)
           \/ StoreRemoveSave(r)
           \/ \E id \in StoreIds, t \in StoreThresholds : GetStats(r, id, t)
           \/ \E id \in StoreIds : GetRevenue(r, id)
           \/ \E t \in StoreThresholds : FindLowStock(r, t)
           \/ Respond(r)
    /\ UNCHANGED http

SpecStore == Init /\ [][NextStore]_vars

(***************************************************************************)
(* Steps of one invocation, as seen from outside.                          *)
(***************************************************************************)
\* slot r takes a call in this step (the await on findOne is served)
Begins(r) == req[r].pc = "idle" /\ req'[r].pc # "idle"

\* the call in slot r settles in this step (resolves or rejects)
Completes(r) == req[r].pc # "done" /\ req'[r].pc = "done"

\* the call in slot r is an adjustStock of this type that has settled without error
Succeeded(r, type) ==
    /\ req[r].pc = "done"
    /\ req[r].op = "adjustStock"
    /\ req[r].type = type
    /\ req[r].error = "none"

(***************************************************************************)
(* C1.  Under every interleaving of adjustStock calls (add, subtract, set) *)
(* with quantities >= 0, on products whose stock starts >= 0, the          *)
(* persisted stock of every product is >= 0 in every reachable state.      *)
(***************************************************************************)
StockNeverNegative ==
    \A id \in DOMAIN products : products[id].stock >= 0

\* a subtract of the whole stock has gone through: the stock is exactly 0
SubtractedToZero ==
    \E r \in Requests :
        /\ Succeeded(r, "subtract")
        /\ req[r].quantity > 0
        /\ req[r].previousStock = req[r].quantity
        /\ products[req[r].id].stock = 0

(***************************************************************************)
(* C2.  N concurrent add(1) calls on a product that starts at stock 0      *)
(* leave, once all have completed, a persisted stock of exactly N (no      *)
(* update is lost).  In a race every slot holds one call; when all of them *)
(* are settled add(1) calls on the same product and one of them read stock *)
(* 0, the product started at 0 and nothing else wrote it.                  *)
(***************************************************************************)
ConcurrentAddsAllCounted ==
    \A id \in ProductIds :
        ( /\ \A r \in Requests :
                /\ Succeeded(r, "add")
                /\ req[r].id = id
                /\ req[r].quantity = 1
          /\ \E r \in Requests : req[r].previousStock = 0 )
        => products[id].stock = Cardinality(Requests)

(***************************************************************************)
(* C3.  A subtract rejected for insufficient stock writes nothing: in the  *)
(* step in which the call is rejected the products table is unchanged, and *)
(* the call has issued no save.                                            *)
(***************************************************************************)
RejectedSubtractWritesNothing ==
    [][\A r \in Requests :
          (Completes(r) /\ req'[r].error = "BadRequest")
          => /\ products' = products
             /\ req'[r].saves = 0]_vars

\* a subtract of more than the stock has been rejected, and the stock is as it was
SubtractRejected ==
    \E r \in Requests :
        /\ req[r].pc = "done"
        /\ req[r].op = "adjustStock"
        /\ req[r].type = "subtract"
        /\ req[r].error = "BadRequest"
        /\ req[r].previousStock > 0
        /\ req[r].quantity > req[r].previousStock
        /\ products[req[r].id].stock = req[r].previousStock

(***************************************************************************)
(* C4.  subtract on an active product with current stock s and quantity q: *)
(* q > s is rejected with BadRequest; q <= s (q = s included) goes on to   *)
(* the save, which persists s - q and returns previousStock = s and        *)
(* newStock = s - q.                                                       *)
(***************************************************************************)
SubtractContract ==
    [][\A r \in Requests :
          /\ ( /\ Begins(r)
               /\ req'[r].op = "adjustStock"
               /\ req'[r].type = "subtract"
               /\ req'[r].id \in DOMAIN products
               /\ products[req'[r].id].isActive )
             => LET s == products[req'[r].id].stock
                    q == req'[r].quantity
                IN  IF q > s
                    THEN req'[r].pc = "done" /\ req'[r].error = "BadRequest"
                    ELSE /\ req'[r].pc = "save"
                         /\ req'[r].error = "none"
                         /\ req'[r].previousStock = s
          /\ ( /\ req[r].pc = "save"
               /\ req[r].op = "adjustStock"
               /\ req[r].type = "subtract"
               /\ Completes(r) )
             => /\ req'[r].error = "none"
                /\ req'[r].previousStock = req[r].previousStock
                /\ req'[r].newStock = req[r].previousStock - req[r].quantity
                /\ products'[req[r].id].stock = req'[r].newStock]_vars

\* the boundary: the whole stock subtracted, newStock 0 returned and persisted
SubtractBoundaryDone ==
    \E r \in Requests :
        /\ Succeeded(r, "subtract")
        /\ req[r].previousStock > 0
        /\ req[r].quantity = req[r].previousStock
        /\ req[r].newStock = 0
        /\ products[req[r].id].stock = 0

(***************************************************************************)
(* C5.  add on an active product with current stock s and quantity q never *)
(* fails: it goes on to the save, which persists s + q and returns         *)
(* previousStock = s, newStock = s + q and a product whose stock is        *)
(* newStock.                                                               *)
(***************************************************************************)
AddContract ==
    [][\A r \in Requests :
          /\ ( /\ Begins(r)
               /\ req'[r].op = "adjustStock"
               /\ req'[r].type = "add"
               /\ req'[r].id \in DOMAIN products
               /\ products[req'[r].id].isActive )
             => /\ req'[r].pc = "save"
                /\ req'[r].error = "none"
                /\ req'[r].previousStock = products[req'[r].id].stock
          /\ ( /\ req[r].pc = "save"
               /\ req[r].op = "adjustStock"
               /\ req[r].type = "add"
               /\ Completes(r) )
             => /\ req'[r].error = "none"
                /\ req'[r].previousStock = req[r].previousStock
                /\ req'[r].newStock = req[r].previousStock + req[r].quantity
                /\ req'[r].product.stock = req'[r].newStock
                /\ products'[req[r].id].stock = req'[r].newStock]_vars

\* an add of q > 0 on stock s > 0 has returned s and s + q, and s + q is persisted
AddDone ==
    \E r \in Requests :
        /\ Succeeded(r, "add")
        /\ req[r].quantity > 0
        /\ req[r].previousStock > 0
        /\ req[r].newStock = req[r].previousStock + req[r].quantity
        /\ req[r].product.stock = req[r].newStock
        /\ products[req[r].id].stock = req[r].newStock

(***************************************************************************)
(* C6.  set with quantity q persists exactly q whatever the stock was, so  *)
(* set(q) applied to the outcome of set(q) changes nothing.                *)
(***************************************************************************)
SetContract ==
    /\ [](\A s \in 0..MaxStock, q \in ValidQuantities :
            NewStock("set", NewStock("set", s, q), q) = NewStock("set", s, q))
    /\ [][\A r \in Requests :
            ( /\ req[r].pc = "save"
              /\ req[r].op = "adjustStock"
              /\ req[r].type = "set"
              /\ Completes(r) )
            => /\ req'[r].error = "none"
               /\ req'[r].newStock = req[r].quantity
               /\ products'[req[r].id].stock = req[r].quantity]_vars

\* set(q) twice in a row on one product: the second found q and left q
SetTwiceDone ==
    \E r1, r2 \in Requests :
        /\ r1 # r2
        /\ Succeeded(r1, "set")
        /\ Succeeded(r2, "set")
        /\ req[r1].id = req[r2].id
        /\ req[r1].quantity = req[r2].quantity
        /\ req[r1].previousStock # req[r1].quantity
        /\ req[r2].previousStock = req[r2].quantity
        /\ products[req[r1].id].stock = req[r1].quantity

(***************************************************************************)
(* C7.  adjustStock on an id with no product, or with a soft-deleted       *)
(* product, is rejected with NotFound for every type and quantity, and     *)
(* writes nothing.                                                         *)
(***************************************************************************)
AdjustMissingOrInactiveNotFound ==
    [][\A r \in Requests :
          ( /\ Begins(r)
            /\ req'[r].op = "adjustStock"
            /\ (req'[r].id \notin DOMAIN products
                  \/ ~products[req'[r].id].isActive) )
          => /\ req'[r].pc = "done"
             /\ req'[r].error = "NotFound"
             /\ req'[r].saves = 0
             /\ products' = products]_vars

\* one call was refused on a soft-deleted product, another on an id never created
NotFoundOnBoth ==
    \E r1, r2 \in Requests :
        /\ req[r1].pc = "done" /\ req[r1].op = "adjustStock"
        /\ req[r1].error = "NotFound"
        /\ req[r1].id \in DOMAIN products
        /\ ~products[req[r1].id].isActive
        /\ req[r2].pc = "done" /\ req[r2].op = "adjustStock"
        /\ req[r2].error = "NotFound"
        /\ req[r2].id \notin DOMAIN products

(***************************************************************************)
(* C8.  adjustStock itself refuses a negative quantity: a call with        *)
(* quantity < 0 is settled with an error at once, with nothing written.    *)
(***************************************************************************)
NegativeQuantityRejected ==
    \A r \in Requests :
        (req[r].op = "adjustStock" /\ req[r].quantity < 0)
        => /\ req[r].pc = "done"
           /\ req[r].error # "none"
           /\ req[r].saves = 0

(***************************************************************************)
(* C9.  adjustStock is all-or-nothing and never retried: a call issues at  *)
(* most one save; the table changes only in the step in which a save       *)
(* succeeds, and then by exactly the saved row; a call that settles with   *)
(* an error (the save's failure included, which is the error the caller    *)
(* gets) leaves the table as it was.                                       *)
(***************************************************************************)
AdjustStockAllOrNothing ==
    /\ [](\A r \in Requests : req[r].saves <= 1)
    /\ [][\A r \in Requests :
            /\ (Completes(r) /\ req'[r].op = "adjustStock" /\ req'[r].error # "none")
               => products' = products
            /\ (Completes(r) /\ req[r].pc = "save" /\ req'[r].op = "adjustStock"
                  /\ products' # Save(req[r].product))
               => req'[r].error = "RepositoryFailure"
            /\ (Completes(r) /\ req'[r].op = "adjustStock" /\ req'[r].error = "none")
               => /\ req'[r].saves = 1
                  /\ products' = Save(req[r].product)]_vars
    /\ [][products' # products
            => \E r \in Requests :
                  /\ req[r].pc = "save"
                  /\ Completes(r)
                  /\ req'[r].error = "none"]_vars

\* a save has failed: the caller got the failure, one save was issued, the
\* stock is the one the call had read
SaveFailedDone ==
    \E r \in Requests :
        /\ req[r].pc = "done"
        /\ req[r].op = "adjustStock"
        /\ req[r].error = "RepositoryFailure"
        /\ req[r].saves = 1
        /\ req[r].product.stock # req[r].previousStock
        /\ products[req[r].id].stock = req[r].previousStock

(***************************************************************************)
(* C10.  Soft-deleted products are invisible to every aggregate.  Whatever *)
(* getStats, getRevenue or findLowStock has just answered is the answer    *)
(* the same call gives on every table that differs in one product that is  *)
(* not on sale: its row changed in any field, dropped, or added (tables    *)
(* that differ in several such products are linked by such single changes, *)
(* and every table in between is an initial state of SpecAgg).  No         *)
(* soft-deleted product is counted in totalProducts or lowStockProducts,   *)
(* and none is in the list findLowStock returns.                           *)
(***************************************************************************)
NotOnSale(table, id) == id \notin DOMAIN table \/ ~table[id].isActive

WithRow(table, row) ==
    [id \in DOMAIN table \cup {row.id} |-> IF id = row.id THEN row ELSE table[id]]

Without(table, gone) == [id \in DOMAIN table \ {gone} |-> table[id]]

\* the tables that differ from table in one product that is on sale in neither
InactiveVariants(table) ==
    UNION {{WithRow(table, row) : row \in {x \in AggRows(id) : ~x.isActive}}
             \cup {Without(table, id)} :
           id \in {i \in ProductIds : NotOnSale(table, i)}}

InactiveInvisible ==
    \A r \in AggRequests :
        (req[r].pc = "done" /\ req[r].error = "none")
        => /\ req[r].op = "getStats"
              => /\ \A other \in InactiveVariants(products) :
                       getStatsOver(other, req[r].id, req[r].threshold) = req[r].result
                 /\ req[r].result.totalProducts =
                       Cardinality({id \in DOMAIN products :
                           products[id].isActive /\ products[id].storeId = req[r].id})
                 /\ req[r].result.lowStockProducts =
                       Cardinality({id \in DOMAIN products :
                           /\ products[id].isActive
                           /\ products[id].storeId = req[r].id
                           /\ products[id].stock <= req[r].threshold})
           /\ req[r].op = "getRevenue"
              => /\ \A other \in InactiveVariants(products) :
                       getRevenueOver(other, req[r].id) = req[r].result
                 /\ req[r].result.totalProducts =
                       Cardinality({id \in DOMAIN products :
                           products[id].isActive /\ products[id].storeId = req[r].id})
           /\ req[r].op = "findLowStock"
              => /\ \A other \in InactiveVariants(products) :
                       findLowStockOver(other, req[r].threshold)
                          = findLowStock(req[r].threshold)
                 /\ req[r].result \in findLowStock(req[r].threshold)
                 /\ \A i \in 1..Len(req[r].result) : req[r].result[i].isActive

\* getStats has answered for a store that holds a product on sale and a
\* soft-deleted one with stock and price: one product counted
StatsWithInactiveProduct ==
    \E r \in AggRequests :
        /\ req[r].pc = "done" /\ req[r].op = "getStats" /\ req[r].error = "none"
        /\ req[r].result.totalProducts = 1
        /\ \E a, b \in DOMAIN products :
              /\ products[a].isActive /\ ~products[b].isActive
              /\ products[a].storeId = req[r].id /\ products[b].storeId = req[r].id
              /\ products[b].stock > 0
              /\ products[b].stock <= req[r].threshold


(***************************************************************************)
(* The figures of a store, counted on the products table itself.           *)
(***************************************************************************)
Answered(r, op) ==
    req[r].pc = "done" /\ req[r].op = op /\ req[r].error = "none"

\* the ids of the products on sale in the store
OnSaleIn(id) ==
    {p \in DOMAIN products : products[p].isActive /\ products[p].storeId = id}

RECURSIVE ValueOf(_)
ValueOf(ids) ==
    IF ids = {}
    THEN 0
    ELSE LET p == CHOOSE x \in ids : TRUE
         IN  products[p].price * products[p].stock + ValueOf(ids \ {p})

RECURSIVE StockOf(_)
StockOf(ids) ==
    IF ids = {}
    THEN 0
    ELSE LET p == CHOOSE x \in ids : TRUE
         IN  products[p].stock + StockOf(ids \ {p})

RECURSIVE PriceOf(_)
PriceOf(ids) ==
    IF ids = {}
    THEN 0
    ELSE LET p == CHOOSE x \in ids : TRUE
         IN  products[p].price + PriceOf(ids \ {p})

\* the three products are on sale in store s1 as the given items
Catalogue(item1, item2, item3) ==
    /\ OnSaleIn("s1") = StatsProductIds
    /\ <<products["p1"].price, products["p1"].stock>> = item1
    /\ <<products["p2"].price, products["p2"].stock>> = item2
    /\ <<products["p3"].price, products["p3"].stock>> = item3

(***************************************************************************)
(* C11: a getStats that answers reports as totalProducts the number of     *)
(* products on sale in the store and as totalInventoryValue the sum of     *)
(* price * stock over these products, to the cent.                         *)
(***************************************************************************)
StatsTotals ==
    \A r \in AggRequests :
        Answered(r, "getStats")
        => /\ req[r].result.totalProducts = Cardinality(OnSaleIn(req[r].id))
           /\ req[r].result.totalInventoryValue = ValueOf(OnSaleIn(req[r].id))

\* products (100, 10), (50, 5), (200, 3): three products worth 1850
StatsTotalsExample ==
    /\ Answered("r1", "getStats")
    /\ req["r1"].id = "s1"
    /\ Catalogue(<<10000, 10>>, <<5000, 5>>, <<20000, 3>>)
    /\ req["r1"].result.totalProducts = 3
    /\ req["r1"].result.totalInventoryValue = 185000

(***************************************************************************)
(* The categories of a store, counted on the products table itself.        *)
(***************************************************************************)
\* the bucket of a category: null and '' share the uncategorised one
Bucket(category) ==
    IF category = NoCategory \/ category = EmptyString
    THEN SinCategoria
    ELSE category

InBucket(id, bucket) ==
    {p \in OnSaleIn(id) : Bucket(products[p].category) = bucket}

Buckets(id) == {Bucket(products[p].category) : p \in OnSaleIn(id)}

\* the place in the product list of the first product of the bucket
FirstEncounter(id, bucket) ==
    CHOOSE i \in 1..Len(ProductOrder) :
        /\ ProductOrder[i] \in InBucket(id, bucket)
        /\ \A j \in 1..(i - 1) : ProductOrder[j] \notin InBucket(id, bucket)

(***************************************************************************)
(* C12: productsByCategory of a getStats that answers has exactly one      *)
(* entry for each category of the products on sale in the store, null and  *)
(* empty categories sharing one uncategorised entry; an entry carries the  *)
(* number of these products in the category and the sum of their           *)
(* price * stock; the entries come in the order in which their categories  *)
(* are first met in the product list.                                      *)
(***************************************************************************)
StatsByCategory ==
    \A r \in AggRequests :
        Answered(r, "getStats")
        => LET id == req[r].id
               entries == req[r].result.productsByCategory
           IN  /\ Len(entries) = Cardinality(Buckets(id))
               /\ {entries[i].category : i \in 1..Len(entries)} = Buckets(id)
               /\ \A i \in 1..Len(entries) :
                     /\ entries[i].productCount =
                           Cardinality(InBucket(id, entries[i].category))
                     /\ entries[i].totalValue =
                           ValueOf(InBucket(id, entries[i].category))
               /\ \A i, j \in 1..Len(entries) :
                     i < j => FirstEncounter(id, entries[i].category)
                                < FirstEncounter(id, entries[j].category)

\* a product without category and one with the empty category share the entry
\* that follows the one of the first product
StatsUncategorisedMerged ==
    /\ Answered("r1", "getStats")
    /\ req["r1"].id = "s1"
    /\ Catalogue(<<10000, 10>>, <<5000, 5>>, <<20000, 3>>)
    /\ products["p1"].category = "Bebidas"
    /\ products["p2"].category = NoCategory
    /\ products["p3"].category = EmptyString
    /\ req["r1"].result.productsByCategory =
          <<[category |-> "Bebidas", productCount |-> 1, totalValue |-> 100000],
            [category |-> SinCategoria, productCount |-> 2, totalValue |-> 85000]>>

(***************************************************************************)
(* C13: a getStats that answers reports as lowStockProducts the number of  *)
(* products on sale in the store whose stock is at most the threshold, a   *)
(* stock equal to the threshold included, and reports the threshold it     *)
(* used as lowStockThreshold; called without a threshold it answers as it  *)
(* does for the threshold 10.                                              *)
(***************************************************************************)
StatsLowStock ==
    /\ \A r \in AggRequests :
          Answered(r, "getStats")
          => /\ req[r].result.lowStockProducts =
                   Cardinality({p \in OnSaleIn(req[r].id) :
                                   products[p].stock <= req[r].threshold})
             /\ req[r].result.lowStockThreshold = req[r].threshold
    /\ \A id \in StoreIds :
          /\ getStatsCall(id, Undefined) = getStats(id, 10)
          /\ getStatsCall(id, Given(5)) = getStats(id, 5)

\* stocks 10, 5 and 3 without a threshold: 3 low stock products at threshold 10
StatsBoundaryCounted ==
    /\ Answered("r1", "getStats")
    /\ req["r1"].id = "s1"
    /\ Catalogue(<<10000, 10>>, <<5000, 5>>, <<20000, 3>>)
    /\ getStatsCall("s1", Undefined) = req["r1"].result
    /\ req["r1"].result.lowStockProducts = 3
    /\ req["r1"].result.lowStockThreshold = 10

(***************************************************************************)
(* C14: getStats and getRevenue on a store id that does not exist, or      *)
(* whose store is soft-deleted, are rejected with NotFound and answer      *)
(* nothing, whatever products the store owns; on an existing active store  *)
(* they answer for that store.                                             *)
(***************************************************************************)
StoreMissingOrInactiveNotFound ==
    [][\A r \in AggRequests :
          (Begins(r) /\ req'[r].op \in {"getStats", "getRevenue"})
          => /\ req'[r].pc = "done"
             /\ IF req'[r].id \notin DOMAIN stores \/ ~stores[req'[r].id].isActive
                THEN /\ req'[r].error = "NotFound"
                     /\ req'[r].result = NoResult
                ELSE /\ req'[r].error = "none"
                     /\ req'[r].result.storeId = req'[r].id]_vars

\* getStats was refused on a soft-deleted store that owns a product on sale
StatsRefusedOnInactiveStore ==
    /\ req["r1"].pc = "done"
    /\ req["r1"].op = "getStats"
    /\ req["r1"].error = "NotFound"
    /\ req["r1"].id \in DOMAIN stores
    /\ ~stores[req["r1"].id].isActive
    /\ \E p \in DOMAIN products :
          products[p].isActive /\ products[p].storeId = req["r1"].id

(***************************************************************************)
(* C15: getRevenue on an existing active store with no product on sale, be *)
(* it without products or with soft-deleted ones only, answers with        *)
(* totalProducts, totalInventoryValue, totalStock and averageProductPrice  *)
(* all 0.                                                                  *)
(***************************************************************************)
RevenueOfEmptyStoreIsZero ==
    [][\A r \in AggRequests :
          ( /\ Begins(r)
            /\ req'[r].op = "getRevenue"
            /\ req'[r].id \in DOMAIN stores
            /\ stores[req'[r].id].isActive
            /\ OnSaleIn(req'[r].id) = {} )
          => /\ req'[r].pc = "done"
             /\ req'[r].error = "none"
             /\ req'[r].result =
                   [error |-> "none", storeId |-> req'[r].id,
                    totalInventoryValue |-> 0, totalProducts |-> 0,
                    totalStock |-> 0, averageProductPrice |-> 0]]_vars

\* getRevenue answered for a store whose only products are soft-deleted
RevenueOfInactiveProductsOnly ==
    /\ Answered("r1", "getRevenue")
    /\ OnSaleIn(req["r1"].id) = {}
    /\ \E p \in DOMAIN products :
          /\ products[p].storeId = req["r1"].id
          /\ products[p].stock > 0
    /\ req["r1"].result.totalProducts = 0
    /\ req["r1"].result.averageProductPrice = 0

(***************************************************************************)
(* C16: a getRevenue that answers for a store with a product on sale       *)
(* reports the number of these products, the sum of their stock, the sum   *)
(* of their price * stock, and as averageProductPrice a cent amount        *)
(* nearest to the sum of their prices divided by their number.             *)
(***************************************************************************)
RevenueFigures ==
    \A r \in AggRequests :
        (Answered(r, "getRevenue") /\ OnSaleIn(req[r].id) # {})
        => LET ids == OnSaleIn(req[r].id)
               n == Cardinality(ids)
               average == req[r].result.averageProductPrice
           IN  /\ req[r].result.totalProducts = n
               /\ req[r].result.totalStock = StockOf(ids)
               /\ req[r].result.totalInventoryValue = ValueOf(ids)
               /\ 2 * (average * n - PriceOf(ids)) <= n
               /\ 2 * (PriceOf(ids) - average * n) <= n

\* prices 100 and 50 with stocks 10 and 20: 2000, 2 products, 30 units, 75
RevenueExample ==
    /\ Answered("r1", "getRevenue")
    /\ req["r1"].id = "s1"
    /\ OnSaleIn("s1") = {"p1", "p2"}
    /\ <<products["p1"].price, products["p1"].stock>> = <<10000, 10>>
    /\ <<products["p2"].price, products["p2"].stock>> = <<5000, 20>>
    /\ req["r1"].result.totalInventoryValue = 200000
    /\ req["r1"].result.totalProducts = 2
    /\ req["r1"].result.totalStock = 30
    /\ req["r1"].result.averageProductPrice = 7500

\* the place of a row in a list that holds it
PlaceIn(list, row) == CHOOSE i \in 1..Len(list) : list[i] = row

(***************************************************************************)
(* C17: a findLowStock answers with exactly the products on sale, of any   *)
(* store, whose stock is at most the threshold, each once, in ascending    *)
(* order of stock, products of equal stock in the order in which the       *)
(* repository handed them over; called without a threshold it answers as   *)
(* it does for the threshold 10.                                           *)
(***************************************************************************)
LowStockListed ==
    /\ \A r \in AggRequests :
          Answered(r, "findLowStock")
          => LET result == req[r].result
                 low == {p \in DOMAIN products :
                            /\ products[p].isActive
                            /\ products[p].stock <= req[r].threshold}
             IN  /\ {result[i] : i \in 1..Len(result)} = {products[p] : p \in low}
                 /\ Len(result) = Cardinality(low)
                 /\ \A i, j \in 1..Len(result) :
                       i < j => /\ result[i].stock <= result[j].stock
                                /\ PlaceIn(req[r].found, result[i])
                                      < PlaceIn(req[r].found, result[j])
    /\ findLowStockCall(Undefined) = findLowStock(10)

\* stocks 8, 5 and 20 without a threshold: the answer is the stocks 5, 8
LowStockExample ==
    /\ Answered("r1", "findLowStock")
    /\ req["r1"].threshold = 10
    /\ \A p \in StatsProductIds : products[p].isActive
    /\ products["p1"].stock = 8
    /\ products["p2"].stock = 5
    /\ products["p3"].stock = 20
    /\ products["p3"].storeId = "s2"
    /\ req["r1"].result = <<products["p2"], products["p1"]>>

(***************************************************************************)
(* C18: getStats, getRevenue and findLowStock write nothing: the step of   *)
(* such a call, answered or refused with NotFound, saves no row and leaves *)
(* the products and stores tables as they are.                             *)
(***************************************************************************)
AggregatorsReadOnly ==
    [][\A r \in AggRequests :
          (Begins(r) /\ req'[r].op \in {"getStats", "getRevenue", "findLowStock"})
          => /\ req'[r].pc = "done"
             /\ req'[r].error \in {"none", "NotFound"}
             /\ req'[r].saves = 0
             /\ products' = products
             /\ stores' = stores]_vars

\* getStats answered for a store with an uncategorised product on sale, which
\* is uncategorised still
StatsLeftCategoryAlone ==
    /\ Answered("r1", "getStats")
    /\ req["r1"].result.totalProducts > 0
    /\ \E i \in 1..Len(req["r1"].result.productsByCategory) :
          req["r1"].result.productsByCategory[i].category = SinCategoria
    /\ \E p \in OnSaleIn(req["r1"].id) : products[p].category = NoCategory

(***************************************************************************)
(* An adjustment request as the service saw it.                            *)
(***************************************************************************)
Responded(r) == req[r].pc = "done" /\ req[r].op = "adjustStock"

\* the row the call read, if it read one
RowRead(r) ==
    IF req[r].error = "NotFound"
    THEN NoProduct
    ELSE [req[r].product EXCEPT !.stock = req[r].previousStock]

ProductColumns ==
    {"id", "isActive", "stock", "price", "sku", "category", "storeId"}

(***************************************************************************)
(* C19: two adjustment requests with the same id, quantity and type that   *)
(* read the same row end the same way whatever their reasons: the same     *)
(* error or none, the same previousStock and newStock, the same row saved, *)
(* and responses that differ in the reason at most.  The response of a     *)
(* request that succeeds carries the reason of its body, and no product    *)
(* row has a column for it.                                                *)
(***************************************************************************)
ReasonHasNoEffect ==
    /\ \A r1, r2 \in Requests :
          ( /\ Responded(r1) /\ Responded(r2)
            /\ req[r1].id = req[r2].id
            /\ http[r1].dto.quantity = http[r2].dto.quantity
            /\ http[r1].dto.type = http[r2].dto.type
            /\ RowRead(r1) = RowRead(r2) )
          => /\ req[r1].error = req[r2].error
             /\ req[r1].previousStock = req[r2].previousStock
             /\ req[r1].newStock = req[r2].newStock
             /\ req[r1].product = req[r2].product
             /\ req[r1].saves = req[r2].saves
             /\ http[r1].response.status = http[r2].response.status
             /\ http[r1].response.status = 200
                   => [http[r1].response EXCEPT !.reason = NoReason]
                        = [http[r2].response EXCEPT !.reason = NoReason]
    /\ \A r \in Requests :
          (Responded(r) /\ req[r].error = "none")
          => /\ http[r].response.reason = http[r].dto.reason
             /\ http[r].response.previousStock = req[r].previousStock
             /\ http[r].response.newStock = req[r].newStock
    /\ \A p \in DOMAIN products : DOMAIN products[p] = ProductColumns

\* two subtractions of 1 from the same stock, one with a reason and one
\* without, both answered
SameAdjustmentTwoReasons ==
    /\ Responded("r1") /\ Responded("r2")
    /\ req["r1"].id = req["r2"].id
    /\ http["r1"].dto = AdjustStockDto(1, "subtract", NoReason)
    /\ http["r2"].dto = AdjustStockDto(1, "subtract", "Recepcion de mercancia")
    /\ RowRead("r1") = RowRead("r2")
    /\ req["r1"].error = "none"
    /\ http["r1"].response.reason = NoReason
    /\ http["r2"].response.reason = "Recepcion de mercancia"
    /\ http["r1"].response.newStock = http["r2"].response.newStock

\* some product, on sale or not, has this SKU
SkuHeld(sku) == \E p \in DOMAIN products : products[p].sku = sku

(***************************************************************************)
(* C20: at all times no two product rows, on sale or soft-deleted, have    *)
(* the same SKU.  A create, or an update to another SKU, that looks the    *)
(* SKU up while a product has it is rejected with Conflict and saves       *)
(* nothing; otherwise it goes on to its save.  A save changes the table    *)
(* only if it leaves the SKUs distinct.                                    *)
(***************************************************************************)
SkuUniqueness ==
    /\ [](\A p, q \in DOMAIN products :
             p # q => products[p].sku # products[q].sku)
    /\ [][\A r \in Requests :
             (req[r].pc = "sku" /\ req'[r].pc # "sku")
             => IF SkuHeld(req[r].dto.sku)
                THEN /\ req'[r].pc = "done"
                     /\ req'[r].error = "Conflict"
                     /\ req'[r].saves = 0
                     /\ products' = products
                ELSE /\ req'[r].pc = "save"
                     /\ products' = products]_vars
    /\ [][\A r \in Requests :
             (Completes(r) /\ req[r].op \in {"create", "update"}
                /\ req'[r].error # "none")
             => products' = products]_vars

\* a create was refused for the SKU of a soft-deleted product, and an update
\* for the SKU of another product
ConflictOnCreateAndUpdate ==
    \E r1, r2 \in Requests :
        /\ req[r1].pc = "done" /\ req[r1].op = "create"
        /\ req[r1].error = "Conflict"
        /\ \E p \in DOMAIN products :
              products[p].sku = req[r1].dto.sku /\ ~products[p].isActive
        /\ req[r2].pc = "done" /\ req[r2].op = "update"
        /\ req[r2].error = "Conflict"
        /\ \E p \in DOMAIN products :
              products[p].sku = req[r2].dto.sku /\ p # req[r2].id

\* the product with this id is soft-deleted
SoftDeleted(id) == id \in DOMAIN products /\ ~products[id].isActive

Closed(id) == id \notin DOMAIN stores \/ ~stores[id].isActive

(***************************************************************************)
(* C22: a create whose store is missing or soft-deleted is rejected with   *)
(* NotFound before any other step; an update of a product on sale to       *)
(* another storeId looks that store up first and is rejected with NotFound *)
(* if it is missing or soft-deleted.  Neither has called save, and the     *)
(* table is as it was: no product is created, the product keeps its store. *)
(***************************************************************************)
StoreRequired ==
    /\ [][\A r \in Requests :
             (Begins(r) /\ req'[r].op = "create")
             => IF Closed(req'[r].dto.storeId)
                THEN /\ req'[r].pc = "done"
                     /\ req'[r].error = "NotFound"
                     /\ req'[r].saves = 0
                     /\ products' = products
                ELSE req'[r].pc = "sku"]_vars
    /\ [][\A r \in Requests :
             ( /\ Begins(r) /\ req'[r].op = "update"
               /\ req'[r].id \in DOMAIN products
               /\ products[req'[r].id].isActive
               /\ req'[r].dto.storeId # Absent
               /\ req'[r].dto.storeId # products[req'[r].id].storeId )
             => req'[r].pc = "store" /\ products' = products]_vars
    /\ [][\A r \in Requests :
             (req[r].pc = "store" /\ req'[r].pc # "store")
             => IF Closed(req[r].dto.storeId)
                THEN /\ req'[r].pc = "done"
                     /\ req'[r].error = "NotFound"
                     /\ req'[r].saves = 0
                     /\ products' = products
                ELSE /\ req'[r].pc \in {"sku", "save"}
                     /\ products' = products]_vars
    /\ [](\A r \in Requests :
             (req[r].op \in {"create", "update"} /\ req[r].error = "NotFound")
             => req[r].saves = 0)
    /\ [](\A p \in DOMAIN products : ~Closed(products[p].storeId))

\* a create was refused for a store id that does not exist and an update for
\* a soft-deleted store; the product updated is in its store still
RefusedForMissingAndInactiveStore ==
    \E r1, r2 \in Requests :
        /\ req[r1].pc = "done" /\ req[r1].op = "create"
        /\ req[r1].error = "NotFound"
        /\ req[r1].dto.storeId \notin DOMAIN stores
        /\ req[r2].pc = "done" /\ req[r2].op = "update"
        /\ req[r2].error = "NotFound"
        /\ req[r2].dto.storeId \in DOMAIN stores
        /\ ~stores[req[r2].dto.storeId].isActive
        /\ req[r2].id \in DOMAIN products
        /\ products[req[r2].id].isActive
        /\ products[req[r2].id].storeId = "s1"

(***************************************************************************)
(* C23: a getStats or findLowStock called with a negative threshold is     *)
(* rejected with an invalid-argument error and answers nothing.            *)
(***************************************************************************)
NegativeThresholdRejected ==
    \A r \in Requests :
        ( /\ req[r].pc = "done"
          /\ req[r].op \in {"getStats", "findLowStock"}
          /\ req[r].threshold < 0 )
        => /\ req[r].error \notin {"none", "NotFound"}
           /\ req[r].result = NoResult

PushDownThresholds == {5, 10}

(***************************************************************************)
(* C24: for every catalogue and threshold, findLowStock with the filter    *)
(* pushed down to the query can give exactly the answers that findLowStock *)
(* can give: each answer of the one is an answer of the other, so an       *)
(* answer given is one the pushed-down form gives too, and where no two    *)
(* products listed have the same stock both give one and the same list.    *)
(***************************************************************************)
PushDownEquivalent ==
    /\ \A t \in PushDownThresholds :
          /\ findLowStockPushedDown(t) = findLowStock(t)
          /\ (\A p, q \in DOMAIN products :
                 (p # q /\ products[p].isActive /\ products[q].isActive)
                 => products[p].stock # products[q].stock)
             => Cardinality(findLowStock(t)) = 1
    /\ \A r \in AggRequests :
          Answered(r, "findLowStock")
          => req[r].result \in findLowStockPushedDown(req[r].threshold)

\* three products on sale with stocks 8, 5 and 3, listed at threshold 5
PushDownSameList ==
    /\ Answered("r1", "findLowStock")
    /\ req["r1"].threshold = 5
    /\ \A p \in StatsProductIds : products[p].isActive
    /\ products["p1"].stock = 8
    /\ products["p2"].stock = 5
    /\ products["p3"].stock = 3
    /\ findLowStockPushedDown(5) = {req["r1"].result}
    /\ req["r1"].result = <<products["p3"], products["p2"]>>

(***************************************************************************)
(* C25: in a race of adjustStock calls with quantities >= 0 the stored     *)
(* stock of every product is >= 0 at all times: the save of a call writes  *)
(* the stock its switch computed from the stock it read, which was >= 0    *)
(* and, for a subtract, at least the quantity.                             *)
(***************************************************************************)
RaceKeepsStockNonNegative ==
    /\ [](\A id \in DOMAIN products : products[id].stock >= 0)
    /\ [][\A r \in Requests :
             (Completes(r) /\ req[r].pc = "save" /\ req[r].op = "adjustStock")
             => /\ req[r].previousStock >= 0
                /\ req[r].type = "subtract" => req[r].quantity <= req[r].previousStock
                /\ products'[req[r].id].stock =
                      (CASE req[r].type = "add" ->
                                req[r].previousStock + req[r].quantity
                         [] req[r].type = "subtract" ->
                                req[r].previousStock - req[r].quantity
                         [] req[r].type = "set" -> req[r].quantity)
                /\ products'[req[r].id].stock >= 0]_vars

\* two subtractions of the whole stock read the same stock and both went
\* through: the stock is 0
BothSubtractedWholeStock ==
    /\ Succeeded("r1", "subtract") /\ Succeeded("r2", "subtract")
    /\ req["r1"].id = req["r2"].id
    /\ req["r1"].previousStock = 2 /\ req["r2"].previousStock = 2
    /\ req["r1"].quantity = 2 /\ req["r2"].quantity = 2
    /\ products[req["r1"].id].stock = 0

\* the quantities of the subtractions among these calls that went through
RECURSIVE Sold(_)
Sold(slots) ==
    IF slots = {}
    THEN 0
    ELSE LET r == CHOOSE x \in slots : TRUE
         IN  (IF Succeeded(r, "subtract") THEN req[r].quantity ELSE 0)
               + Sold(slots \ {r})

(***************************************************************************)
(* C26: when a product receives subtract calls only, the quantities of the *)
(* calls that went through sum to at most its initial stock.  In a race    *)
(* every slot holds one call; when all of them are subtract calls on the   *)
(* same product nothing else wrote it, and the largest stock that one of   *)
(* them read is the stock it started with.                                 *)
(***************************************************************************)
NoOverselling ==
    \A id \in ProductIds :
        (\A r \in Requests :
            /\ req[r].pc # "idle"
            /\ req[r].op = "adjustStock"
            /\ req[r].type = "subtract"
            /\ req[r].id = id
            /\ req[r].error # "NotFound")
        => \E first \in Requests :
              /\ \A r \in Requests : req[r].previousStock <= req[first].previousStock
              /\ Sold(Requests) <= req[first].previousStock

(***************************************************************************)
(* C27: a product that is soft-deleted stays soft-deleted with the stock   *)
(* it has: no step of create, update, remove or adjustStock makes it       *)
(* active again or changes its stock, the save of a call that read the     *)
(* product before the remove included.                                     *)
(***************************************************************************)
SoftDeletionPermanent ==
    [][\A id \in DOMAIN products :
          ~products[id].isActive
          => /\ id \in DOMAIN products'
             /\ ~products'[id].isActive
             /\ products'[id].stock = products[id].stock]_vars

RECURSIVE CountSum(_)
CountSum(entries) ==
    IF entries = <<>>
    THEN 0
    ELSE entries[1].productCount + CountSum(Tail(entries))

RECURSIVE ValueSum(_)
ValueSum(entries) ==
    IF entries = <<>>
    THEN 0
    ELSE entries[1].totalValue + ValueSum(Tail(entries))

(***************************************************************************)
(* C29: in every answer of getStats the productCount of the entries of     *)
(* productsByCategory sum to totalProducts, no entry has productCount 0,   *)
(* no two entries have the same category, the totalValue of the entries    *)
(* sum to totalInventoryValue, and lowStockProducts is at most             *)
(* totalProducts.                                                          *)
(***************************************************************************)
CategoriesPartition ==
    \A r \in AggRequests :
        Answered(r, "getStats")
        => LET entries == req[r].result.productsByCategory
           IN  /\ CountSum(entries) = req[r].result.totalProducts
               /\ \A i \in 1..Len(entries) : entries[i].productCount > 0
               /\ \A i, j \in 1..Len(entries) :
                     i # j => entries[i].category # entries[j].category
               /\ ValueSum(entries) = req[r].result.totalInventoryValue
               /\ req[r].result.lowStockProducts <= req[r].result.totalProducts
               /\ req[r].result.lowStockProducts >= 0

\* three products in two categories, one of them above the threshold
TwoCategoriesOfThree ==
    /\ Answered("r1", "getStats")
    /\ req["r1"].result.totalProducts = 3
    /\ Len(req["r1"].result.productsByCategory) = 2
    /\ req["r1"].result.productsByCategory[1].productCount = 2
    /\ req["r1"].result.lowStockProducts = 2

\* the products on sale that a store owns, whatever the store's own flag
LowIn(id, threshold) ==
    {p \in OnSaleIn(id) : products[p].stock <= threshold}

(***************************************************************************)
(* C30: the save of a store removal sets that store's active flag to false *)
(* and changes nothing else: every other store and every product row is as *)
(* it was, so the store's products are still on sale.  From then on a      *)
(* findLowStock still lists each of those products whose stock is at most  *)
(* the threshold, while getStats and getRevenue for that store are         *)
(* rejected with NotFound.                                                 *)
(***************************************************************************)
StoreSoftDelete ==
    /\ [][\A r \in Requests :
             (Completes(r) /\ req[r].op = "removeStore" /\ req[r].pc = "save")
             => /\ stores' = [stores EXCEPT ![req[r].id].isActive = FALSE]
                /\ products' = products
                /\ req'[r].error = "none"
                /\ req'[r].saves = 1]_vars
    /\ [][\A r \in Requests :
             (Begins(r) /\ req'[r].op = "removeStore")
             => /\ UNCHANGED <<products, stores>>
                /\ IF Closed(req'[r].id)
                   THEN /\ req'[r].pc = "done"
                        /\ req'[r].error = "NotFound"
                        /\ req'[r].saves = 0
                   ELSE req'[r].pc = "save"]_vars
    /\ [][\A r \in Requests :
             (Begins(r) /\ req'[r].op = "findLowStock")
             => \A id \in StoreIds :
                   Closed(id)
                   => \A p \in LowIn(id, req'[r].threshold) :
                         \E i \in 1..Len(req'[r].result) :
                            req'[r].result[i] = products[p]]_vars
    /\ [][\A r \in Requests :
             (Begins(r) /\ req'[r].op \in {"getStats", "getRevenue"}
                        /\ Closed(req'[r].id))
             => /\ req'[r].pc = "done"
                /\ req'[r].error = "NotFound"
                /\ req'[r].result = NoResult]_vars

\* store s1 was soft-deleted, and a later findLowStock lists its product p1
RemovedStoreStillListed ==
    /\ req["r1"].pc = "done"
    /\ req["r1"].op = "removeStore"
    /\ req["r1"].id = "s1"
    /\ req["r1"].saves = 1
    /\ ~stores["s1"].isActive
    /\ Answered("r2", "findLowStock")
    /\ products["p1"].isActive
    /\ products["p1"].storeId = "s1"
    /\ \E i \in 1..Len(req["r2"].result) : req["r2"].result[i] = products["p1"]

====
